---- MODULE Spec2Model ----
(***************************************************************************)
(* SPMCQueue<T, CNT> (src/src/spmc.hpp, src/spmc.hpp) and MarketDataHub    *)
(* (src/msgbus/market_data_hub.hpp) as a state machine.                    *)
(*                                                                         *)
(* Every shared-memory access of the C++ code is one step.  The payload    *)
(* of a slot is two words (the variant's tag and its body) that the writer *)
(* stores and a reader loads one at a time, in either order: blk.data is   *)
(* plain memory, so a copy that overlaps a write may mix words of two      *)
(* records.  The body of the i-th record written is [n |-> i, of |-> t],   *)
(* a struct of the alternative t the record was built as, so a copy tells  *)
(* which write each of its words came from.                                *)
(*                                                                         *)
(* write_idx and Subscriber::running are plain words read by one thread    *)
(* while another stores them; a load returns the value before or after     *)
(* the store, which the interleaving of the steps covers.  Sequence        *)
(* numbers are SeqBits wide instead of 32.                                 *)
(*                                                                         *)
(* The specifications share the ring.  RingSpec is a writer and readers    *)
(* polling it directly, as main.cpp does; FairRingSpec adds fair           *)
(* scheduling, ReadLastSpec readers that call readLast, WrapSpec a writer  *)
(* that goes on past the wrap of write_idx and WrapLastSpec the same with  *)
(* a reader that calls readLast.  HubSpec is publish, subscribe,           *)
(* unsubscribe, stop_all and the consumer threads; FewHubSpec and          *)
(* UnsubscribeSpec are the same with fewer subscribers and records,        *)
(* FairHubSpec is FewHubSpec under fair scheduling, ControlSpec has no     *)
(* publish, DeliverSpec is subscribe, then one publish, under fair         *)
(* scheduling; in FailureSpec callbacks may raise and in CallbackSpec they *)
(* may call subscribe.                                                     *)
(***************************************************************************)
EXTENDS Integers, Sequences, FiniteSets, TLC

\* ---------------------------------------------------------------- bounds
LogCNT == 1
SeqBits == 4
MaxWrites == 3
MaxPublish == 3
MaxSubs == 2
FewPublish == 2
FewSubs == 1
ExtraWrites == 3

\* ------------------------------------------------------------- constants
CNT == 2 ^ LogCNT
Modulus == 2 ^ SeqBits
\* enum class DataType; BOOK_L1 = 2 behaves as TRADE does and is left out
KLINE == 0
TRADE == 1
DataType == {KLINE, TRADE}
\* the words of a payload
Fields == {"tag", "body"}
\* threads that took a reader with getReader
Readers == {"r1", "r2"}
\* threads that call subscribe, unsubscribe and stop_all
Callers == {"c1", "c2"}
NoOwner == "free"
SubIds == 0 .. (MaxSubs - 1)
\* what a PyCallback holds: a PyCallbackWrapper around a Python callable
\* (python_bindings.cpp) or any other C++ callable
Callbacks == {"python", "native"}

VARIABLES
  \* the ring
  write_idx,      \* SPMCQueue::write_idx
  blks,           \* SPMCQueue::blks : slot -> [idx, tag, body]
  wpc,            \* writer position: "idle", "data", "store"
  wdata,          \* the record write() was called with
  wleft,          \* words of blk.data the writer has still to store
  nwrites,        \* history: number of writes started
  lastPub,        \* history: number of the one record published to subscribers
  \* readers obtained directly through getReader (as in main.cpp)
  rpc,            \* "none" (not created), "poll", "last" (in readLast), "copy"
  next_idx,       \* Reader::next_idx
  view,           \* slot index the pointer returned by read() refers to
  got,            \* new_idx acquire-loaded by the last successful read
  rleft,          \* words of the payload still to be loaded through the view
  rcopy,          \* the words loaded so far
  obs,            \* history: [seq, data] of every completed successful read
  createdAt,      \* write_idx when getReader ran
  finishedAt,     \* number of writes completed when getReader ran
  lapped,         \* history: the reader was lapped at a read or during a copy
  rpos,           \* history: Reader::next_idx counted without the wrap
  \* the hub
  mutex_,         \* MarketDataHub::mutex_ : NoOwner or the caller holding it
  next_subscriber_id_,
  subscribers_,   \* keys of MarketDataHub::subscribers_
  sub,            \* id -> Subscriber record and its consumer thread's locals
  cpc,            \* caller -> position inside subscribe/unsubscribe/stop_all
  carg,           \* caller -> id the call in progress works on
  cpend,          \* caller -> ids stop_all has still to visit
  issued,         \* history: ids returned by subscribe, in order of return
  removed         \* history: ids whose unsubscribe/stop_all removal completed

ringVars == <<write_idx, blks, wpc, wdata, wleft, nwrites, lastPub>>
readerVars == <<rpc, next_idx, view, got, rleft, rcopy, obs, createdAt, finishedAt, lapped, rpos>>
hubVars == <<mutex_, next_subscriber_id_, subscribers_, sub, cpc, carg, cpend, issued, removed>>
vars == <<ringVars, readerVars, hubVars>>

\* ------------------------------------------------------------ arithmetic
\* uint32_t arithmetic, at width SeqBits
U32(x) == x % Modulus

\* int(a - b) of Reader::read: the unsigned difference read as a signed value
SignedDiff(a, b) ==
  LET d == (a - b) % Modulus
  IN  IF d >= Modulus \div 2 THEN d - Modulus ELSE d

\* default-constructed Block: idx = 0, data = first alternative, zeroed
NoBody == [n |-> 0, of |-> KLINE]

EmptyBlock == [idx |-> 0, tag |-> KLINE, body |-> NoBody]

NoData == [tag |-> KLINE, body |-> NoBody]

\* the record the n-th write was called with, when its alternative is t
Record(n, t) == [tag |-> t, body |-> [n |-> n, of |-> t]]

\* main.cpp, lines 84-88: the i-th pass of write_thread, i = 0, 1, ..., makes
\* the (i+1)-th write and stores msg.idx = i
MsgIdx(d) == d.body.n - 1

\* ------------------------------------------------------------------ ring
\* number of writes whose release-store has happened
Completed == IF wpc = "idle" THEN nwrites ELSE nwrites - 1

\* a write that indexes the ring before it increments: blks[write_idx++ % CNT]
WriteSlot_PostIncrement == (write_idx + CNT - 1) % CNT

\* a write that indexes the ring with the sequence number after its own
WriteSlot_Next == (write_idx + 1) % CNT

\* slot the write in progress stores into: blks[++write_idx % CNT]
WriteSlot == write_idx % CNT

\* the number, counted without the wrap, of the write whose release-store
\* put the idx word slot s holds (0: the slot was never published)
Published(s) ==
  IF wpc # "idle" /\ WriteSlot = s /\ "body" \notin wleft
  THEN IF nwrites > CNT THEN nwrites - CNT ELSE 0
  ELSE blks[s].body.n

\* a cursor kept once for the queue instead of once for each Reader
Advance_Shared(nx, r, v) == [q \in DOMAIN nx |-> v]

\* Reader::next_idx is a member of the Reader it belongs to
Advance(nx, r, v) == [nx EXCEPT ![r] = v]

\* getReader that starts every reader at the beginning of the ring
GetReaderIdx_Zero == U32(0)

\* getReader without the + 1: the reader starts on the write in progress
GetReaderIdx_NoIncrement == U32(write_idx)

\* getReader: reader.next_idx = write_idx + 1
GetReaderIdx == U32(write_idx + 1)

\* a ready test that compares the two sequence numbers as unsigned values
NotReady_Unsigned(new_idx, n) == new_idx < n

\* a ready test that is off by one: the record at next_idx is not ready yet
NotReady_OffByOne(new_idx, n) == SignedDiff(new_idx, n) <= 0

\* the ready test of read(): int(new_idx - next_idx) < 0 means not ready
NotReady(new_idx, n) == SignedDiff(new_idx, n) < 0

\* a read that leaves next_idx on the record it returned
ReadResult_NoAdvance(n) ==
  LET slot == n % CNT
      new_idx == blks[slot].idx
  IN  IF NotReady(new_idx, n)
      THEN [ok |-> FALSE, next |-> n, slot |-> slot, seq |-> new_idx]
      ELSE [ok |-> TRUE, next |-> new_idx, slot |-> slot, seq |-> new_idx]

\* Reader::read on a reader whose next_idx is n
ReadResult(n) ==
  LET slot == n % CNT
      new_idx == blks[slot].idx
  IN  IF NotReady(new_idx, n)
      THEN [ok |-> FALSE, next |-> n, slot |-> slot, seq |-> new_idx]
      ELSE [ok |-> TRUE, next |-> U32(new_idx + 1), slot |-> slot, seq |-> new_idx]

\* ret of readLast before its first pass: T *ret = nullptr
NoView == [found |-> FALSE, slot |-> 0, seq |-> 0]

\* a readLast that returns after its first read()
ReadLastFrom_OnePass(n, ret) ==
  LET res == ReadResult(n)
  IN  IF res.ok
      THEN [ret |-> [found |-> TRUE, slot |-> res.slot, seq |-> res.seq], next |-> res.next]
      ELSE [ret |-> ret, next |-> n]

\* readLast run to its return on a ring no write changes meanwhile, from
\* next_idx = n with ret found so far: while (T *cur = read()) ret = cur;
\* return ret.  The result is ret and the next_idx the call leaves
RECURSIVE ReadLastFrom(_, _)
ReadLastFrom(n, ret) ==
  LET res == ReadResult(n)
  IN  IF res.ok
      THEN ReadLastFrom(res.next, [found |-> TRUE, slot |-> res.slot, seq |-> res.seq])
      ELSE [ret |-> ret, next |-> n]

\* history of "never lapped": readNow are the readers executing read() in this
\* step; a reader in the middle of a copy is checked in the step's new state
LapUpdate(readNow) ==
  lapped' = [r \in Readers |->
               \/ lapped[r]
               \/ r \in readNow /\ SignedDiff(write_idx, next_idx[r]) >= CNT
               \/ rpc'[r] = "copy" /\ SignedDiff(write_idx', next_idx'[r]) >= CNT]

\* write(), line 60: auto &blk = blks[++write_idx % CNT]
WriteStart(t, limit) ==
  /\ wpc = "idle"
  /\ nwrites < limit
  /\ write_idx' = U32(write_idx + 1)
  /\ wdata' = Record(nwrites + 1, t)
  /\ nwrites' = nwrites + 1
  /\ wleft' = Fields
  /\ wpc' = "data"
  /\ UNCHANGED <<blks, rpc, next_idx, view, got, rleft, rcopy, obs, createdAt, finishedAt, rpos>>
  /\ LapUpdate({})
  /\ UNCHANGED hubVars

\* the benchmark's writer thread: q.write(...)
WriteBegin(t) == WriteStart(t, MaxWrites) /\ UNCHANGED lastPub

\* MarketDataHub::add, lines 63-65: queue_.write(data)
Publish(t) == WriteStart(t, MaxPublish) /\ UNCHANGED lastPub

\* write(), line 61: blk.data = data, one word at a time
WriteData(f) ==
  /\ wpc = "data"
  /\ f \in wleft
  /\ blks' = [blks EXCEPT ![WriteSlot][f] = wdata[f]]
  /\ wleft' = wleft \ {f}
  /\ wpc' = IF wleft' = {} THEN "store" ELSE "data"
  /\ UNCHANGED <<write_idx, wdata, nwrites, lastPub>>
  /\ UNCHANGED <<readerVars, hubVars>>

\* a release-store of the sequence number after the one the write took
WriteStore_NextIdx ==
  /\ wpc = "store"
  /\ blks' = [blks EXCEPT ![WriteSlot].idx = U32(write_idx + 1)]
  /\ wpc' = "idle"
  /\ UNCHANGED <<write_idx, wdata, wleft, nwrites, lastPub>>
  /\ UNCHANGED <<readerVars, hubVars>>

\* write(), line 93: release-store of write_idx into blk.idx
WriteStore ==
  /\ wpc = "store"
  /\ blks' = [blks EXCEPT ![WriteSlot].idx = write_idx]
  /\ wpc' = "idle"
  /\ UNCHANGED <<write_idx, wdata, wleft, nwrites, lastPub>>
  /\ UNCHANGED <<readerVars, hubVars>>

\* ------------------------------------------------- readers used directly
\* auto reader = q.getReader()
GetReader(r) ==
  /\ rpc[r] = "none"
  /\ next_idx' = Advance(next_idx, r, GetReaderIdx)
  /\ rpos' = [rpos EXCEPT ![r] = nwrites + 1]
  /\ createdAt' = [createdAt EXCEPT ![r] = write_idx]
  /\ finishedAt' = [finishedAt EXCEPT ![r] = Completed]
  /\ rpc' = [rpc EXCEPT ![r] = "poll"]
  /\ UNCHANGED <<view, got, rleft, rcopy, obs>>
  /\ UNCHANGED <<ringVars, hubVars>>
  /\ LapUpdate({})

\* Msg *msg = reader.read()
Read(r) ==
  /\ rpc[r] = "poll"
  /\ LET res == ReadResult(next_idx[r])
     IN  /\ next_idx' = Advance(next_idx, r, res.next)
         /\ IF res.ok
            THEN /\ view' = [view EXCEPT ![r] = res.slot]
                 /\ got' = [got EXCEPT ![r] = res.seq]
                 /\ rleft' = [rleft EXCEPT ![r] = Fields]
                 /\ rpc' = [rpc EXCEPT ![r] = "copy"]
                 /\ rpos' = [rpos EXCEPT ![r] = Published(res.slot) + 1]
            ELSE UNCHANGED <<view, got, rleft, rpc, rpos>>
  /\ UNCHANGED <<rcopy, obs, createdAt, finishedAt>>
  /\ UNCHANGED <<ringVars, hubVars>>
  /\ LapUpdate({r})

\* reader.read() by a caller that only tests the pointer and never looks at
\* the payload (as the loop of readLast does with all but its last record)
Drain(r) ==
  /\ rpc[r] = "poll"
  /\ LET res == ReadResult(next_idx[r])
     IN  /\ next_idx' = Advance(next_idx, r, res.next)
         /\ rpos' = IF res.ok THEN [rpos EXCEPT ![r] = Published(res.slot) + 1] ELSE rpos
  /\ UNCHANGED <<rpc, view, got, rleft, rcopy, obs, createdAt, finishedAt>>
  /\ UNCHANGED <<ringVars, hubVars>>
  /\ LapUpdate({r})

\* Msg *msg = reader.readLast(): one pass of while (T *cur = read()) ret = cur.
\* rpc = "last" once ret is not null; when read() finds nothing the loop ends
\* and readLast returns ret (null when no pass found a record)
ReadLast(r) ==
  /\ rpc[r] \in {"poll", "last"}
  /\ LET res == ReadResult(next_idx[r])
     IN  /\ next_idx' = Advance(next_idx, r, res.next)
         /\ IF res.ok
            THEN /\ view' = [view EXCEPT ![r] = res.slot]
                 /\ got' = [got EXCEPT ![r] = res.seq]
                 /\ rpos' = [rpos EXCEPT ![r] = Published(res.slot) + 1]
                 /\ rpc' = [rpc EXCEPT ![r] = "last"]
                 /\ UNCHANGED rleft
            ELSE /\ rpc' = [rpc EXCEPT ![r] = IF rpc[r] = "last" THEN "copy" ELSE "poll"]
                 /\ rleft' = [rleft EXCEPT ![r] = IF rpc[r] = "last" THEN Fields ELSE @]
                 /\ UNCHANGED <<view, got, rpos>>
  /\ UNCHANGED <<rcopy, obs, createdAt, finishedAt>>
  /\ UNCHANGED <<ringVars, hubVars>>
  /\ LapUpdate({r})

\* the caller loads one word of the payload through the returned pointer;
\* after the last word the pointer and the copy are dropped
CopyField(r, f) ==
  /\ rpc[r] = "copy"
  /\ f \in rleft[r]
  /\ LET c == [rcopy[r] EXCEPT ![f] = blks[view[r]][f]]
         left == rleft[r] \ {f}
     IN  /\ rleft' = [rleft EXCEPT ![r] = left]
         /\ IF left = {}
            THEN /\ obs' = [obs EXCEPT ![r] = Append(@, [seq |-> got[r], data |-> c])]
                 /\ rcopy' = [rcopy EXCEPT ![r] = NoData]
                 /\ view' = [view EXCEPT ![r] = 0]
                 /\ got' = [got EXCEPT ![r] = 0]
                 /\ rpc' = [rpc EXCEPT ![r] = "poll"]
            ELSE /\ rcopy' = [rcopy EXCEPT ![r] = c]
                 /\ UNCHANGED <<obs, view, got, rpc>>
  /\ UNCHANGED <<next_idx, createdAt, finishedAt, rpos>>
  /\ UNCHANGED <<ringVars, hubVars>>
  /\ LapUpdate({})

\* ------------------------------------------------------------------ init
\* a Subscriber that subscribe() has not constructed yet, with the locals
\* of its consumer thread (view = data_ptr) and its history
NoSub == [data_type |-> KLINE, callback |-> "native", running |-> FALSE,
          next_idx |-> 0, tpc |-> "unborn",
          view |-> 0, got |-> 0, current_type |-> KLINE, left |-> {},
          data_copy |-> NoData, ncalls |-> 0, nfail |-> 0, late |-> FALSE]

Init ==
  /\ write_idx = 0
  /\ blks = [i \in 0 .. (CNT - 1) |-> EmptyBlock]
  /\ wpc = "idle"
  /\ wdata = NoData
  /\ wleft = {}
  /\ nwrites = 0
  /\ lastPub = 0
  /\ rpc = [r \in Readers |-> "none"]
  /\ next_idx = [r \in Readers |-> 0]
  /\ view = [r \in Readers |-> 0]
  /\ got = [r \in Readers |-> 0]
  /\ rleft = [r \in Readers |-> {}]
  /\ rcopy = [r \in Readers |-> NoData]
  /\ obs = [r \in Readers |-> <<>>]
  /\ createdAt = [r \in Readers |-> 0]
  /\ finishedAt = [r \in Readers |-> 0]
  /\ lapped = [r \in Readers |-> FALSE]
  /\ rpos = [r \in Readers |-> 0]
  /\ mutex_ = NoOwner
  /\ next_subscriber_id_ = 0
  /\ subscribers_ = {}
  /\ sub = [i \in SubIds |-> NoSub]
  /\ cpc = [c \in Callers |-> "idle"]
  /\ carg = [c \in Callers |-> 0]
  /\ cpend = [c \in Callers |-> {}]
  /\ issued = <<>>
  /\ removed = [i \in SubIds |-> "no"]

\* ------------------------------------------------------------------- hub
\* an id taken from the size of the table instead of the counter
NewSubId_TableSize == Cardinality(subscribers_)

\* subscribe(), line 76: int sub_id = next_subscriber_id_++
NewSubId == next_subscriber_id_

\* unsubscribe that erases the entry without waiting for the thread
JoinDone_NoJoin(id) == TRUE

\* thread->join() returns once the consumer thread function has returned
JoinDone(id) == sub[id].tpc = "exited"

\* subscribe(), lines 74-86: lock, allocate the id, construct the Subscriber
\* with the callback cb, take the reader, set running, launch the consumer
\* thread; at most limit subscribers are ever created
SubscribeWith(c, t, cb, limit) ==
  /\ cpc[c] = "idle"
  /\ mutex_ = NoOwner
  /\ next_subscriber_id_ < limit
  /\ LET id == NewSubId
     IN  /\ sub' = [sub EXCEPT ![id] =
                      [NoSub EXCEPT !.data_type = t, !.callback = cb, !.running = TRUE,
                                    !.next_idx = GetReaderIdx, !.tpc = "start"]]
         /\ carg' = [carg EXCEPT ![c] = id]
  /\ mutex_' = c
  /\ next_subscriber_id_' = next_subscriber_id_ + 1
  /\ cpc' = [cpc EXCEPT ![c] = "subscribe"]
  /\ UNCHANGED <<subscribers_, cpend, issued, removed>>
  /\ UNCHANGED <<ringVars, readerVars>>

\* a subscribe whose callback never raises
SubscribeUpTo(c, t, limit) == SubscribeWith(c, t, "native", limit)

SubscribeBegin(c, t) == SubscribeUpTo(c, t, MaxSubs)

\* subscribe(), lines 88-91: insert into the table, return the id, unlock
SubscribeEnd(c) ==
  /\ cpc[c] = "subscribe"
  /\ subscribers_' = subscribers_ \cup {carg[c]}
  /\ issued' = Append(issued, carg[c])
  /\ mutex_' = NoOwner
  /\ cpc' = [cpc EXCEPT ![c] = "idle"]
  /\ carg' = [carg EXCEPT ![c] = 0]
  /\ UNCHANGED <<next_subscriber_id_, sub, cpend, removed>>
  /\ UNCHANGED <<ringVars, readerVars>>

\* subscribers_.erase / clear destroys the Subscriber; its history stays
Destroyed(s) == [NoSub EXCEPT !.tpc = s.tpc, !.ncalls = s.ncalls, !.nfail = s.nfail,
                              !.late = s.late]

\* a lookup that takes every id for a subscriber
Found_Always(id) == TRUE

\* unsubscribe(), lines 100-101: it != subscribers_.end()
Found(id) == id \in subscribers_

\* unsubscribe(), lines 98-103: lock, find the entry, clear running
UnsubscribeBegin(c, id) ==
  /\ cpc[c] = "idle"
  /\ mutex_ = NoOwner
  /\ Found(id)
  /\ mutex_' = c
  /\ sub' = [sub EXCEPT ![id].running = FALSE]
  /\ carg' = [carg EXCEPT ![c] = id]
  /\ cpc' = [cpc EXCEPT ![c] = "unsub_join"]
  /\ UNCHANGED <<next_subscriber_id_, subscribers_, cpend, issued, removed>>
  /\ UNCHANGED <<ringVars, readerVars>>

\* unsubscribe(), lines 98-101: lock, the id is not in the table
UnsubscribeUnknown(c, id) ==
  /\ cpc[c] = "idle"
  /\ mutex_ = NoOwner
  /\ ~Found(id)
  /\ mutex_' = c
  /\ carg' = [carg EXCEPT ![c] = id]
  /\ cpc' = [cpc EXCEPT ![c] = "unsub_miss"]
  /\ UNCHANGED <<next_subscriber_id_, subscribers_, sub, cpend, issued, removed>>
  /\ UNCHANGED <<ringVars, readerVars>>

\* unsubscribe(), line 109: nothing was found; unlock and return
UnsubscribeMiss(c) ==
  /\ cpc[c] = "unsub_miss"
  /\ mutex_' = NoOwner
  /\ cpc' = [cpc EXCEPT ![c] = "idle"]
  /\ carg' = [carg EXCEPT ![c] = 0]
  /\ UNCHANGED <<next_subscriber_id_, subscribers_, sub, cpend, issued, removed>>
  /\ UNCHANGED <<ringVars, readerVars>>

\* an erase that leaves the entry in the table
Erase_Keep(tbl, id) == tbl

\* unsubscribe(), line 107: subscribers_.erase(it)
Erase(tbl, id) == tbl \ {id}

\* subscriber_count(), lines 129-132: lock, subscribers_.size()
subscriber_count == Cardinality(subscribers_)

\* unsubscribe(), lines 104-109: join the thread, erase the entry, unlock
UnsubscribeJoin(c) ==
  /\ cpc[c] = "unsub_join"
  /\ JoinDone(carg[c])
  /\ subscribers_' = Erase(subscribers_, carg[c])
  /\ removed' = [removed EXCEPT ![carg[c]] = "unsubscribe"]
  /\ sub' = [sub EXCEPT ![carg[c]] = Destroyed(@)]
  /\ mutex_' = NoOwner
  /\ cpc' = [cpc EXCEPT ![c] = "idle"]
  /\ carg' = [carg EXCEPT ![c] = 0]
  /\ UNCHANGED <<next_subscriber_id_, cpend, issued>>
  /\ UNCHANGED <<ringVars, readerVars>>

\* stop_all(), lines 115-117: lock, start iterating over the table
StopAllBegin(c) ==
  /\ cpc[c] = "idle"
  /\ mutex_ = NoOwner
  /\ mutex_' = c
  /\ cpend' = [cpend EXCEPT ![c] = subscribers_]
  /\ cpc' = [cpc EXCEPT ![c] = "stop_loop"]
  /\ UNCHANGED <<next_subscriber_id_, subscribers_, sub, carg, issued, removed>>
  /\ UNCHANGED <<ringVars, readerVars>>

\* stop_all(), lines 117-118: next entry (unordered_map order), clear running
StopAllVisit(c, id) ==
  /\ cpc[c] = "stop_loop"
  /\ id \in cpend[c]
  /\ sub' = [sub EXCEPT ![id].running = FALSE]
  /\ carg' = [carg EXCEPT ![c] = id]
  /\ cpc' = [cpc EXCEPT ![c] = "stop_join"]
  /\ UNCHANGED <<mutex_, next_subscriber_id_, subscribers_, cpend, issued, removed>>
  /\ UNCHANGED <<ringVars, readerVars>>

\* stop_all(), lines 119-121: join that entry's thread
StopAllJoin(c) ==
  /\ cpc[c] = "stop_join"
  /\ JoinDone(carg[c])
  /\ cpend' = [cpend EXCEPT ![c] = @ \ {carg[c]}]
  /\ cpc' = [cpc EXCEPT ![c] = "stop_loop"]
  /\ carg' = [carg EXCEPT ![c] = 0]
  /\ UNCHANGED <<mutex_, next_subscriber_id_, subscribers_, sub, issued, removed>>
  /\ UNCHANGED <<ringVars, readerVars>>

\* stop_all(), lines 123-124: clear the table, unlock
StopAllEnd(c) ==
  /\ cpc[c] = "stop_loop"
  /\ cpend[c] = {}
  /\ removed' = [i \in SubIds |-> IF i \in subscribers_ THEN "stop_all" ELSE removed[i]]
  /\ subscribers_' = {}
  /\ sub' = [i \in SubIds |-> IF i \in subscribers_ THEN Destroyed(sub[i]) ELSE sub[i]]
  /\ mutex_' = NoOwner
  /\ cpc' = [cpc EXCEPT ![c] = "idle"]
  /\ UNCHANGED <<next_subscriber_id_, carg, cpend, issued>>
  /\ UNCHANGED <<ringVars, readerVars>>

\* ------------------------------------------------------- consumer thread
HubUnchanged == UNCHANGED <<mutex_, next_subscriber_id_, subscribers_, cpc, carg, cpend, issued, removed>>

\* consumer_thread(), lines 141-152: look itself up under the mutex
ConsumerStart(id) ==
  /\ sub[id].tpc = "start"
  /\ mutex_ = NoOwner
  /\ sub' = [sub EXCEPT ![id].tpc = IF id \in subscribers_ THEN "loop" ELSE "exited"]
  /\ HubUnchanged
  /\ UNCHANGED <<ringVars, readerVars>>

\* a loop that looks the subscriber up under the mutex again on every pass
LoopHead_Lookup == "start"

\* consumer_thread(), lines 154, 159, 165, 178: continue and the end of the
\* body go back to the test of while (subscriber->running)
LoopHead == "loop"

\* consumer_thread(), line 154: while (subscriber->running)
ConsumerCheck(id) ==
  /\ sub[id].tpc = "loop"
  /\ sub' = [sub EXCEPT ![id].tpc = IF sub[id].running THEN "read" ELSE "exited"]
  /\ HubUnchanged
  /\ UNCHANGED <<ringVars, readerVars>>

\* consumer_thread(), lines 155-160: reader.read(); nothing there: sleep, continue
ConsumerRead(id) ==
  /\ sub[id].tpc = "read"
  /\ LET res == ReadResult(sub[id].next_idx)
     IN  sub' = [sub EXCEPT ![id] =
                   IF res.ok
                   THEN [@ EXCEPT !.next_idx = res.next, !.view = res.slot,
                                  !.got = res.seq, !.tpc = "tag"]
                   ELSE [@ EXCEPT !.tpc = LoopHead]]
  /\ HubUnchanged
  /\ UNCHANGED <<ringVars, readerVars>>

\* the locals of the loop body (data_ptr, current_type, data_copy) end with it
EndBody(s) == [s EXCEPT !.view = 0, !.got = 0, !.current_type = KLINE,
                        !.data_copy = NoData, !.tpc = LoopHead]

\* consumer_thread(), lines 163-166: current_type = data_ptr->index(), filter
ConsumerTag(id) ==
  /\ sub[id].tpc = "tag"
  /\ LET current_type == blks[sub[id].view].tag
     IN  sub' = [sub EXCEPT ![id] =
                   IF current_type # sub[id].data_type
                   THEN EndBody(@)
                   ELSE [@ EXCEPT !.current_type = current_type, !.left = Fields,
                                  !.tpc = "copy"]]
  /\ HubUnchanged
  /\ UNCHANGED <<ringVars, readerVars>>

\* consumer_thread(), line 170: MarketData data_copy = *data_ptr, word by word
ConsumerCopy(id, f) ==
  /\ sub[id].tpc = "copy"
  /\ f \in sub[id].left
  /\ sub' = [sub EXCEPT ![id] =
               [@ EXCEPT !.data_copy[f] = blks[sub[id].view][f],
                         !.left = @ \ {f},
                         !.tpc = IF sub[id].left = {f} THEN "call" ELSE "copy"]]
  /\ HubUnchanged
  /\ UNCHANGED <<ringVars, readerVars>>

\* consumer_thread(), lines 174-177: subscriber->callback(current_type, &arg),
\* arg being the alternative data_copy holds
ConsumerInvoke(id) ==
  /\ sub[id].tpc = "call"
  /\ sub' = [sub EXCEPT ![id] =
               [@ EXCEPT !.ncalls = @ + 1,
                         !.late = @ \/ removed[id] # "no",
                         !.tpc = "callback"]]
  /\ HubUnchanged
  /\ UNCHANGED <<ringVars, readerVars>>

\* the callback returns; the loop body's locals go out of scope
ConsumerReturn(id) ==
  /\ sub[id].tpc = "callback"
  /\ sub' = [sub EXCEPT ![id] = EndBody(@)]
  /\ HubUnchanged
  /\ UNCHANGED <<ringVars, readerVars>>

\* the callback raises.  PyCallbackWrapper::operator() (python_bindings.cpp,
\* lines 20-63) catches std::exception, prints and returns, so the thread
\* goes on with the next record.  consumer_thread itself (lines 174-177) has
\* no handler: an exception of any other callable leaves the thread function
\* and std::terminate ends the process.
ConsumerThrow(id) ==
  /\ sub[id].tpc = "callback"
  /\ sub' = [sub EXCEPT ![id] =
               IF sub[id].callback = "python"
               THEN [EndBody(@) EXCEPT !.nfail = @ + 1]
               ELSE [@ EXCEPT !.nfail = @ + 1, !.tpc = "terminated"]]
  /\ HubUnchanged
  /\ UNCHANGED <<ringVars, readerVars>>

ConsumerStep(id) ==
  \/ ConsumerStart(id)
  \/ ConsumerCheck(id)
  \/ ConsumerRead(id)
  \/ ConsumerTag(id)
  \/ \E f \in Fields : ConsumerCopy(id, f)
  \/ ConsumerInvoke(id)
  \/ ConsumerReturn(id)

HubNext ==
  \/ \E t \in DataType : Publish(t)
  \/ \E f \in Fields : WriteData(f)
  \/ WriteStore
  \/ \E c \in Callers, t \in DataType : SubscribeBegin(c, t)
  \/ \E c \in Callers : SubscribeEnd(c)
  \/ \E c \in Callers, id \in SubIds : UnsubscribeBegin(c, id)
  \/ \E c \in Callers, id \in SubIds : UnsubscribeUnknown(c, id)
  \/ \E c \in Callers : UnsubscribeMiss(c)
  \/ \E c \in Callers : UnsubscribeJoin(c)
  \/ \E c \in Callers : StopAllBegin(c)
  \/ \E c \in Callers, id \in SubIds : StopAllVisit(c, id)
  \/ \E c \in Callers : StopAllJoin(c)
  \/ \E c \in Callers : StopAllEnd(c)
  \/ \E id \in SubIds : ConsumerStart(id)
  \/ \E id \in SubIds : ConsumerCheck(id)
  \/ \E id \in SubIds : ConsumerRead(id)
  \/ \E id \in SubIds : ConsumerTag(id)
  \/ \E id \in SubIds, f \in Fields : ConsumerCopy(id, f)
  \/ \E id \in SubIds : ConsumerInvoke(id)
  \/ \E id \in SubIds : ConsumerReturn(id)

HubSpec == Init /\ [][HubNext]_vars

\* -------------------------------- publish, subscribe and unsubscribe only
\* the hub without stop_all, with fewer subscribers and records
PublishFew(t) == WriteStart(t, FewPublish) /\ UNCHANGED lastPub

SubscribeFew(c, t) == SubscribeUpTo(c, t, FewSubs)

UnsubscribeNext ==
  \/ \E t \in DataType : PublishFew(t)
  \/ \E f \in Fields : WriteData(f)
  \/ WriteStore
  \/ \E c \in Callers, t \in DataType : SubscribeFew(c, t)
  \/ \E c \in Callers : SubscribeEnd(c)
  \/ \E c \in Callers, id \in SubIds : UnsubscribeBegin(c, id)
  \/ \E c \in Callers, id \in SubIds : UnsubscribeUnknown(c, id)
  \/ \E c \in Callers : UnsubscribeMiss(c)
  \/ \E c \in Callers : UnsubscribeJoin(c)
  \/ \E id \in SubIds : ConsumerStart(id)
  \/ \E id \in SubIds : ConsumerCheck(id)
  \/ \E id \in SubIds : ConsumerRead(id)
  \/ \E id \in SubIds : ConsumerTag(id)
  \/ \E id \in SubIds, f \in Fields : ConsumerCopy(id, f)
  \/ \E id \in SubIds : ConsumerInvoke(id)
  \/ \E id \in SubIds : ConsumerReturn(id)

UnsubscribeSpec == Init /\ [][UnsubscribeNext]_vars

\* ------------------------------------- the whole hub, with the few bounds
FewHubNext ==
  \/ UnsubscribeNext
  \/ \E c \in Callers : StopAllBegin(c)
  \/ \E c \in Callers, id \in SubIds : StopAllVisit(c, id)
  \/ \E c \in Callers : StopAllJoin(c)
  \/ \E c \in Callers : StopAllEnd(c)

FewHubSpec == Init /\ [][FewHubNext]_vars

\* ------------------------------------------- callbacks that call subscribe
\* the callback calls hub.subscribe from the consumer thread and waits in
\* its lock_guard (line 74); the calls under way never exceed the ids left
CallbackCallsSubscribe(id) ==
  /\ sub[id].tpc = "callback"
  /\ next_subscriber_id_
       + Cardinality({i \in SubIds : sub[i].tpc = "cb_subscribe"}) < MaxSubs
  /\ sub' = [sub EXCEPT ![id].tpc = "cb_subscribe"]
  /\ HubUnchanged
  /\ UNCHANGED <<ringVars, readerVars>>

\* subscribe(), lines 74-91, run by the consumer thread of id: from the lock
\* to the unlock nothing of it is visible to another thread (the thread it
\* launches waits for the mutex), so it is one step; then the callback goes on
CallbackSubscribe(id, t) ==
  /\ sub[id].tpc = "cb_subscribe"
  /\ mutex_ = NoOwner
  /\ LET new == NewSubId
     IN  /\ sub' = [sub EXCEPT
                      ![new] = [NoSub EXCEPT !.data_type = t, !.running = TRUE,
                                             !.next_idx = GetReaderIdx, !.tpc = "start"],
                      ![id].tpc = "callback"]
         /\ subscribers_' = subscribers_ \cup {new}
         /\ issued' = Append(issued, new)
  /\ next_subscriber_id_' = next_subscriber_id_ + 1
  /\ UNCHANGED <<mutex_, cpc, carg, cpend, removed>>
  /\ UNCHANGED <<ringVars, readerVars>>

\* a step of the consumer thread of id, callbacks that subscribe included
ThreadStep(id) ==
  \/ ConsumerStep(id)
  \/ CallbackCallsSubscribe(id)
  \/ \E t \in DataType : CallbackSubscribe(id, t)

\* a step of the call caller c is in
CallerStep(c) ==
  \/ SubscribeEnd(c)
  \/ UnsubscribeMiss(c)
  \/ UnsubscribeJoin(c)
  \/ \E id \in SubIds : StopAllVisit(c, id)
  \/ StopAllJoin(c)
  \/ StopAllEnd(c)

CallbackNext ==
  \/ FewHubNext
  \/ \E id \in SubIds : CallbackCallsSubscribe(id)
  \/ \E id \in SubIds, t \in DataType : CallbackSubscribe(id, t)

CallbackSpec == Init /\ [][CallbackNext]_vars

\* ------------------------------------------------ callbacks that may raise
\* std::terminate has not been called
Alive == \A id \in SubIds : sub[id].tpc # "terminated"

SubscribeCallback(c, t, cb) == SubscribeWith(c, t, cb, FewSubs)

FailureNext ==
  \/ Alive /\ \E t \in DataType : PublishFew(t)
  \/ Alive /\ \E f \in Fields : WriteData(f)
  \/ Alive /\ WriteStore
  \/ Alive /\ \E c \in Callers, t \in DataType, cb \in Callbacks : SubscribeCallback(c, t, cb)
  \/ Alive /\ \E c \in Callers : SubscribeEnd(c)
  \/ Alive /\ \E id \in SubIds : ConsumerStart(id)
  \/ Alive /\ \E id \in SubIds : ConsumerCheck(id)
  \/ Alive /\ \E id \in SubIds : ConsumerRead(id)
  \/ Alive /\ \E id \in SubIds : ConsumerTag(id)
  \/ Alive /\ \E id \in SubIds, f \in Fields : ConsumerCopy(id, f)
  \/ Alive /\ \E id \in SubIds : ConsumerInvoke(id)
  \/ Alive /\ \E id \in SubIds : ConsumerReturn(id)
  \/ Alive /\ \E id \in SubIds : ConsumerThrow(id)

FailureSpec == Init /\ [][FailureNext]_vars

\* ------------------------------------------ the hub with no publish at all
\* subscribe, unsubscribe and stop_all from any caller; add() is never
\* called, so every read of a consumer thread finds nothing
ControlNext ==
  \/ \E c \in Callers, t \in DataType : SubscribeBegin(c, t)
  \/ \E c \in Callers : SubscribeEnd(c)
  \/ \E c \in Callers, id \in SubIds : UnsubscribeBegin(c, id)
  \/ \E c \in Callers, id \in SubIds : UnsubscribeUnknown(c, id)
  \/ \E c \in Callers : UnsubscribeMiss(c)
  \/ \E c \in Callers : UnsubscribeJoin(c)
  \/ \E c \in Callers : StopAllBegin(c)
  \/ \E c \in Callers, id \in SubIds : StopAllVisit(c, id)
  \/ \E c \in Callers : StopAllJoin(c)
  \/ \E c \in Callers : StopAllEnd(c)
  \/ \E id \in SubIds : ConsumerStart(id)
  \/ \E id \in SubIds : ConsumerCheck(id)
  \/ \E id \in SubIds : ConsumerRead(id)

ControlSpec == Init /\ [][ControlNext]_vars

\* ------------------------------------- subscribe, then publish one record
\* Records may be published while nobody has subscribed.  Then callers
\* subscribe, and once every subscribe has returned exactly one more record
\* is published; nobody unsubscribes.
NoSubscribeYet == next_subscriber_id_ = 0

PublishOnce(t) ==
  /\ lastPub = 0
  /\ \A c \in Callers : cpc[c] = "idle"
  /\ WriteStart(t, MaxPublish)
  /\ lastPub' = IF NoSubscribeYet THEN 0 ELSE nwrites + 1

SubscribeFirst(c, t) ==
  /\ lastPub = 0
  /\ SubscribeBegin(c, t)

WriterStep ==
  \/ \E f \in Fields : WriteData(f)
  \/ WriteStore

DeliverNext ==
  \/ \E t \in DataType : PublishOnce(t)
  \/ \E f \in Fields : WriteData(f)
  \/ WriteStore
  \/ \E c \in Callers, t \in DataType : SubscribeFirst(c, t)
  \/ \E c \in Callers : SubscribeEnd(c)
  \/ \E id \in SubIds : ConsumerStart(id)
  \/ \E id \in SubIds : ConsumerCheck(id)
  \/ \E id \in SubIds : ConsumerRead(id)
  \/ \E id \in SubIds : ConsumerTag(id)
  \/ \E id \in SubIds, f \in Fields : ConsumerCopy(id, f)
  \/ \E id \in SubIds : ConsumerInvoke(id)
  \/ \E id \in SubIds : ConsumerReturn(id)

\* every thread that can run is scheduled again: the writer finishes the
\* write it began, subscribe returns, each consumer thread keeps looping
DeliverSpec ==
  /\ Init
  /\ [][DeliverNext]_vars
  /\ WF_vars(WriterStep)
  /\ WF_vars(\E c \in Callers : SubscribeEnd(c))
  /\ \A id \in SubIds : WF_vars(ConsumerStep(id))

\* ------------------------------------------- the ring used as in main.cpp
RingNext ==
  \/ \E t \in DataType : WriteBegin(t)
  \/ \E f \in Fields : WriteData(f)
  \/ WriteStore
  \/ \E r \in Readers : GetReader(r)
  \/ \E r \in Readers : Read(r)
  \/ \E r \in Readers, f \in Fields : CopyField(r, f)

RingSpec == Init /\ [][RingNext]_vars

\* ------------------------------------------ readers that also use readLast
ReadLastNext ==
  \/ RingNext
  \/ \E r \in Readers : ReadLast(r)

ReadLastSpec == Init /\ [][ReadLastNext]_vars

\* --------------------------- the benchmark with every thread scheduled fairly
\* write_thread runs its loop to the end; each read_thread keeps polling
WriterLoop ==
  \/ \E t \in DataType : WriteBegin(t)
  \/ \E f \in Fields : WriteData(f)
  \/ WriteStore

ReaderLoop(r) ==
  \/ Read(r)
  \/ \E f \in Fields : CopyField(r, f)

FairRingSpec ==
  /\ Init
  /\ [][RingNext]_vars
  /\ WF_vars(WriterLoop)
  /\ \A r \in Readers : WF_vars(ReaderLoop(r))

\* ------------------------------------- the ring across the wrap of write_idx
\* the writer goes on past 2^SeqBits writes; one reader is created at any
\* moment and polls at its own pace
WrapWrites == Modulus + ExtraWrites

WrapWrite(t) == WriteStart(t, WrapWrites) /\ UNCHANGED lastPub

WrapNext ==
  \/ \E t \in DataType : WrapWrite(t)
  \/ \E f \in Fields : WriteData(f)
  \/ WriteStore
  \/ GetReader("r1")
  \/ Drain("r1")

WrapSpec == Init /\ [][WrapNext]_vars

\* ----------------------------------------- readLast across the wrap
\* a caller of readLast that only tests the returned pointer and drops it
DropView(r) ==
  /\ rpc[r] = "copy"
  /\ rpc' = [rpc EXCEPT ![r] = "poll"]
  /\ view' = [view EXCEPT ![r] = 0]
  /\ got' = [got EXCEPT ![r] = 0]
  /\ rleft' = [rleft EXCEPT ![r] = {}]
  /\ UNCHANGED <<next_idx, rcopy, obs, createdAt, finishedAt, rpos>>
  /\ UNCHANGED <<ringVars, hubVars>>
  /\ LapUpdate({})

\* the writer of WrapSpec, writing records of one alternative, and one
\* reader, created at any moment, that calls readLast at its own pace
WrapLastNext ==
  \/ WrapWrite(TRADE)
  \/ \E f \in Fields : WriteData(f)
  \/ WriteStore
  \/ GetReader("r1")
  \/ ReadLast("r1")
  \/ DropView("r1")

WrapLastSpec == Init /\ [][WrapLastNext]_vars

\* -------------------------------------- the hub with every thread scheduled
\* FewHubSpec under fair scheduling: every consumer thread that can take a
\* step takes one, callbacks return, a call in progress goes on when it can,
\* a write in progress is completed
FairHubSpec ==
  /\ Init
  /\ [][FewHubNext]_vars
  /\ \A id \in SubIds : WF_vars(ConsumerStep(id))
  /\ \A c \in Callers : WF_vars(CallerStep(c))
  /\ WF_vars(WriterStep)

\* d is, word for word, the record the n-th write was called with
IsRecord(d, n) == d.body.n = n /\ d.body.of = d.tag

\* a reader created before the first write that was never lapped
KeptUp(r) == rpc[r] # "none" /\ createdAt[r] = 0 /\ ~lapped[r]

\* C1: a reader created before the first write and never lapped (write_idx -
\* next_idx < CNT at every read and during every copy) obtains from its
\* successful reads the payloads p1, p2, ... each once, in producer order
C1_InOrderNoLoss ==
  \A r \in Readers :
    KeptUp(r) => \A i \in 1 .. Len(obs[r]) : IsRecord(obs[r][i].data, i)

\* C2: the payload read through the view returned by a read that loaded
\* sequence s is, word for word, the payload of the write that stored s
C2_ViewIsRecordOfSeq ==
  \A r \in Readers :
    \A i \in 1 .. Len(obs[r]) : IsRecord(obs[r][i].data, obs[r][i].seq)

\* C3: the payloads a reader obtains are records of the producer, with
\* strictly increasing sequence numbers: no duplicate, no reordering
C3_StrictlyIncreasing ==
  \A r \in Readers :
    /\ \A i \in 1 .. Len(obs[r]) :
         \E n \in 1 .. nwrites : IsRecord(obs[r][i].data, n)
    /\ \A i, j \in 1 .. Len(obs[r]) :
         i < j => obs[r][i].data.body.n < obs[r][j].data.body.n

\* C9: a reader never returns a record written before it was created: every
\* successful read loads a sequence >= (write_idx at creation) + 1, and every
\* body it copies comes from such a write, which completed after the creation
C9_NoRecordFromBeforeCreation ==
  \A r \in Readers :
    /\ rpc[r] = "copy" => got[r] >= createdAt[r] + 1
    /\ \A i \in 1 .. Len(obs[r]) :
         /\ obs[r][i].seq >= createdAt[r] + 1
         /\ obs[r][i].data.body.n >= createdAt[r] + 1
         /\ obs[r][i].data.body.n > finishedAt[r]

\* a reader created while a write was in progress, over a ring that already
\* held a record, has completed a successful read
C9_Witness ==
  \E r \in Readers :
    /\ createdAt[r] > finishedAt[r]
    /\ finishedAt[r] >= 1
    /\ Len(obs[r]) >= 1

\* ------------------------------------------------------------ hub claims
\* C4: once unsubscribe(id) has returned, the consumer thread of id has
\* exited and no callback of id is invoked any more
C4_NoCallbackAfterUnsubscribe ==
  \A id \in SubIds :
    removed[id] = "unsubscribe" => sub[id].tpc = "exited" /\ ~sub[id].late

\* unsubscribe of a subscriber that received a record has returned and a
\* later publish is in progress
C4_Witness ==
  \E id \in SubIds :
    /\ removed[id] = "unsubscribe"
    /\ sub[id].ncalls >= 1
    /\ wpc = "store"
    /\ nwrites > sub[id].ncalls

\* C5: unsubscribe always returns: while it waits in join, the consumer
\* thread it waits for has exited or can take a step
C5_UnsubscribeCanFinish ==
  \A c \in Callers :
    cpc[c] = "unsub_join" => JoinDone(carg[c]) \/ ENABLED ConsumerStep(carg[c])

\* C6: stop_all with publish never called always returns: while it waits in
\* join, the consumer thread it waits for has exited or can take a step
C6_StopAllCanFinish ==
  \A c \in Callers :
    (nwrites = 0 /\ cpc[c] = "stop_join")
      => JoinDone(carg[c]) \/ ENABLED ConsumerStep(carg[c])

\* C8: a callback runs only for the subscriber's filter, and the tag and the
\* payload it is handed belong to one published record
C8_CallbackTagMatchesPayload ==
  \A id \in SubIds :
    sub[id].tpc = "callback" =>
      /\ sub[id].current_type = sub[id].data_type
      /\ sub[id].data_copy.tag = sub[id].current_type
      /\ sub[id].data_copy.body.of = sub[id].current_type

\* the one record published after the subscribes has the filter of id
Awaited(id) ==
  /\ lastPub > 0
  /\ id \in subscribers_
  /\ wdata.tag = sub[id].data_type

\* C7: after subscribe has returned and one record with the subscriber's tag
\* is published, the callback is eventually invoked with that record, and it
\* is invoked once only
C7_DeliveredExactlyOnce ==
  /\ [](\A id \in SubIds :
          /\ sub[id].ncalls <= 1
          /\ sub[id].ncalls = 1 => Awaited(id)
          /\ sub[id].tpc = "callback" =>
               /\ sub[id].current_type = sub[id].data_type
               /\ sub[id].data_copy = Record(lastPub, sub[id].data_type))
  /\ \A id \in SubIds : [](Awaited(id) => <>(sub[id].ncalls = 1))

\* the callback of a subscriber has run for the record published after its
\* subscribe and has returned; the ring held an older record as well
C7_Witness ==
  \E id \in SubIds :
    /\ Awaited(id)
    /\ lastPub >= 2
    /\ sub[id].ncalls = 1
    /\ sub[id].tpc = "loop"

\* ids handed out so far, in order: those returned, then the one a
\* subscribe in progress has allocated
Allocated ==
  LET inprog == {c \in Callers : cpc[c] = "subscribe"}
  IN  IF inprog = {} THEN issued
      ELSE Append(issued, carg[CHOOSE c \in inprog : TRUE])

\* C10: every subscribe gets an id strictly greater than every id handed out
\* before, also after subscribers were removed by unsubscribe or stop_all
C10_IdsStrictlyIncrease ==
  \A i, j \in 1 .. Len(Allocated) : i < j => Allocated[i] < Allocated[j]

\* a subscribe has returned an id after an earlier subscriber was removed
C10_Witness ==
  /\ Len(issued) >= 2
  /\ removed[issued[1]] # "no"
  /\ issued[2] \in subscribers_
  /\ \E c \in Callers : cpc[c] = "stop_loop" /\ cpend[c] = {issued[2]}

\* the members of the hub and every subscriber (flag, thread, reader) stay
HubFrame == UNCHANGED <<subscribers_, next_subscriber_id_, sub>>

\* C11: unsubscribe(id) for an id that is not in the table (never issued, or
\* removed before) takes the not-found path, returns, and leaves the table,
\* the id counter and every subscriber's flag, thread and reader unchanged
C11_UnknownIdIsNoOp ==
  /\ [](\A c \in Callers : cpc[c] = "unsub_miss" => ENABLED UnsubscribeMiss(c))
  /\ [][\A c \in Callers :
          /\ (/\ cpc[c] = "idle"
              /\ cpc'[c] \in {"unsub_join", "unsub_miss"}
              /\ carg'[c] \notin subscribers_)
               => (cpc'[c] = "unsub_miss" /\ HubFrame)
          /\ (cpc[c] = "unsub_miss" /\ cpc'[c] # "unsub_miss")
               => (cpc'[c] = "idle" /\ mutex_' = NoOwner /\ HubFrame)]_vars

\* unsubscribe of an id removed before is on its not-found path while
\* another subscriber's thread is polling
C11_Witness ==
  \E c \in Callers :
    /\ cpc[c] = "unsub_miss"
    /\ removed[carg[c]] # "no"
    /\ \E id \in subscribers_ : sub[id].running /\ sub[id].tpc = "read"

\* subscribers created by a subscribe that returned and not removed since
Live == {id \in SubIds : removed[id] = "no" /\ \E i \in 1 .. Len(issued) : issued[i] = id}

\* C12: whenever the mutex is free, subscriber_count() is the number of
\* subscribers created and not yet removed, each with running = true and a
\* launched thread that has not ended; a subscribe that returns adds one to
\* the count and the unsubscribe of its id that returns takes that one away
C12_CountIsLiveSubscribers ==
  /\ [](mutex_ = NoOwner =>
          /\ subscribers_ = Live
          /\ subscriber_count = Cardinality(Live)
          /\ \A id \in subscribers_ :
               sub[id].running /\ sub[id].tpc \notin {"unborn", "exited"})
  /\ [][\A c \in Callers :
          /\ (cpc[c] = "subscribe" /\ cpc'[c] = "idle")
               => (subscriber_count' = subscriber_count + 1 /\ carg[c] \in subscribers_')
          /\ (cpc[c] = "unsub_join" /\ cpc'[c] = "idle")
               => (subscriber_count' = subscriber_count - 1 /\ carg[c] \notin subscribers_')]_vars

\* a subscribe and the unsubscribe of its id have both returned; another
\* subscriber is still in the table, and the mutex is free
C12_Witness ==
  /\ mutex_ = NoOwner
  /\ \E id \in SubIds : removed[id] = "unsubscribe"
  /\ subscriber_count = 1

\* C13: a callback that fails does not end the consumer thread: the thread
\* goes on (the failed record is dropped) and the subscriber stays in the table
C13_CallbackFailureIsCaught ==
  \A id \in SubIds :
    sub[id].nfail > 0 => (sub[id].tpc # "terminated" /\ id \in subscribers_)

\* the idx word of every slot is its publication number at the sequence width
PublishedIsIdx == \A s \in 0 .. (CNT - 1) : blks[s].idx = U32(Published(s))

\* C14: at every read, read returns a record exactly when the slot of
\* next_idx holds a record published at or after the reader's next_idx (one
\* the reader has not consumed), also after write_idx wrapped past zero
C14_ReadyIffUnconsumedRecord ==
  \A r \in Readers :
    rpc[r] = "poll" =>
      (ReadResult(next_idx[r]).ok <=> Published(next_idx[r] % CNT) >= rpos[r])

\* C14, amended: the same, for every read of a reader that is fewer than
\* 2^(SeqBits-1) records behind the writer
C14_ReadyIffUnconsumedInRange ==
  \A r \in Readers :
    (rpc[r] = "poll" /\ nwrites - rpos[r] < Modulus \div 2) =>
      (ReadResult(next_idx[r]).ok <=> Published(next_idx[r] % CNT) >= rpos[r])

\* write_idx has wrapped past zero while the reader's next_idx has not, and
\* the reader's next read returns a record
C14_Witness ==
  \E r \in Readers :
    /\ rpc[r] = "poll"
    /\ nwrites > Modulus
    /\ rpos[r] < Modulus
    /\ nwrites - rpos[r] < Modulus \div 2
    /\ write_idx < next_idx[r]
    /\ ReadResult(next_idx[r]).ok

\* positions of a consumer thread inside its read loop
InLoop == {"loop", "read", "tag", "copy", "call", "callback"}

\* C15: publish and the read loop never take the mutex.  A publish can start
\* and go on in every state, a thread inside its loop can always step,
\* whoever holds the mutex; only steps of subscribe, unsubscribe and stop_all
\* change the mutex; and a consumer thread that has done its startup lookup
\* never does it again
C15_MutexOffTheFastPath ==
  /\ [](/\ (wpc = "idle" /\ nwrites < FewPublish) => ENABLED (\E t \in DataType : PublishFew(t))
        /\ wpc # "idle" => ENABLED WriterStep
        /\ \A id \in SubIds : sub[id].tpc \in InLoop => ENABLED ConsumerStep(id))
  /\ [][/\ mutex_' # mutex_ => \E c \in Callers : cpc'[c] # cpc[c]
        /\ \A id \in SubIds : sub[id].tpc \in InLoop => sub'[id].tpc # "start"]_vars

\* unsubscribe or stop_all holds the mutex, blocked in join, while the
\* thread it waits for copies a record and a publish is in progress
C15_Witness ==
  \E c \in Callers :
    /\ cpc[c] \in {"unsub_join", "stop_join"}
    /\ mutex_ = c
    /\ sub[carg[c]].tpc = "copy"
    /\ wpc = "data"

\* C16: a subscribe called from a callback always returns: while it waits
\* for the mutex, the caller that holds the mutex can take a step, or waits
\* in join for a thread that can take a step
C16_CallbackSubscribeReturns ==
  \A id \in SubIds :
    sub[id].tpc = "cb_subscribe" =>
      \/ mutex_ = NoOwner
      \/ \E c \in Callers :
           /\ mutex_ = c
           /\ \/ ENABLED CallerStep(c)
              \/ /\ cpc[c] \in {"unsub_join", "stop_join"}
                 /\ ENABLED ThreadStep(carg[c])

\* the last record the reader obtained is the final one of the writer
GotFinal(r) ==
  /\ Len(obs[r]) > 0
  /\ obs[r][Len(obs[r])].seq = MaxWrites
  /\ IsRecord(obs[r][Len(obs[r])].data, MaxWrites)

C18_AssertIdxAtLeastCount ==
  \A r \in Readers :
    \A i \in 1 .. Len(obs[r]) : MsgIdx(obs[r][i].data) >= i

\* an operation on the reader of r
ReaderOp(r) == GetReader(r) \/ Read(r) \/ ReadLast(r)

\* C19: getReader, read and readLast change the next_idx of their own
\* reader only: no slot, not write_idx, no other reader's next_idx; a step of
\* write changes no next_idx, and write can start and go on whatever the
\* readers are doing
C19_ReadersAreIndependent ==
  /\ [][\A r \in Readers :
          ReaderOp(r) =>
            /\ UNCHANGED <<blks, write_idx>>
            /\ \A q \in Readers \ {r} : next_idx'[q] = next_idx[q]]_vars
  /\ [][WriterLoop => UNCHANGED next_idx]_vars
  /\ [](/\ (wpc = "idle" /\ nwrites < MaxWrites) => ENABLED (\E t \in DataType : WriteBegin(t))
        /\ wpc # "idle" => ENABLED WriterStep)

\* one reader is inside readLast and has moved its next_idx, the other
\* polls with a different next_idx, and a write is in progress
C19_Witness ==
  \E r, q \in Readers :
    /\ rpc[r] = "last"
    /\ rpc[q] = "poll"
    /\ next_idx[q] # next_idx[r]
    /\ wpc = "data"

\* what C20 says of reader r when nwrites = CNT + k records were written and
\* no write is in progress: created before the first write and on its first
\* read, it gets a record of sequence > k, next_idx becomes that sequence + 1
\* and the sequence - next_idx >= k records are skipped; created after
\* those writes, it gets none
SkipAhead(r) ==
  LET res == ReadResult(next_idx[r])
      k == nwrites - CNT
      observed == Published(res.slot)
  IN  /\ rpos[r] = 1 =>
           /\ res.ok
           /\ observed > k
           /\ res.next = U32(res.seq + 1)
           /\ observed - rpos[r] >= k
      /\ finishedAt[r] = nwrites => ~res.ok

\* C20: after N + k writes, k >= 0, with no write in progress
C20_FirstReadSkipsAhead ==
  \A r \in Readers :
    (rpc[r] = "poll" /\ wpc = "idle" /\ nwrites >= CNT) => SkipAhead(r)

\* C20, amended: the same, as long as N + k <= 2^(SeqBits-1)
C20_FirstReadSkipsAheadInRange ==
  \A r \in Readers :
    (rpc[r] = "poll" /\ wpc = "idle" /\ nwrites >= CNT /\ nwrites <= Modulus \div 2)
      => SkipAhead(r)

\* N + 2 records were written, none is in progress, and a reader created
\* before the first write is about to make its first read
C20_Witness ==
  \E r \in Readers :
    /\ rpc[r] = "poll"
    /\ rpos[r] = 1
    /\ wpc = "idle"
    /\ nwrites = CNT + 2
    /\ ReadResult(next_idx[r]).ok


\* the reader was lapped (write_idx - next_idx >= N, counted without the
\* wrap), no write is in progress and its next read returns a record
LappedRead(r) ==
  /\ rpc[r] = "poll"
  /\ wpc = "idle"
  /\ nwrites - rpos[r] >= CNT
  /\ ReadResult(next_idx[r]).ok

\* the newest record of the slot reader r reads next: the largest sequence
\* <= write_idx congruent to next_idx modulo N, counted without the wrap
NewestInSlot(r) ==
  CHOOSE n \in rpos[r] .. nwrites :
    (n - rpos[r]) % CNT = 0 /\ n + CNT > nwrites

\* C21: the next successful read of a lapped reader, with no write in
\* progress, returns the record with sequence write_idx
C21_LappedReadReturnsWriteIdx ==
  \A r \in Readers :
    LappedRead(r) => ReadResult(next_idx[r]).seq = write_idx

\* C21, amended: it returns the newest record of the slot next_idx mod N,
\* the largest sequence <= write_idx congruent to next_idx modulo N, which
\* is one of the last N records; next_idx becomes that sequence + 1, so the
\* records from next_idx up to it are dropped, at least N of them
C21_LappedReadReturnsNewestInSlot ==
  \A r \in Readers :
    LappedRead(r) =>
      LET res == ReadResult(next_idx[r])
          n == NewestInSlot(r)
      IN  /\ res.seq = U32(n)
          /\ res.slot = n % CNT
          /\ Published(res.slot) = n
          /\ res.next = U32(n + 1)
          /\ n - rpos[r] >= CNT

\* a lapped reader whose next read returns a record that is not the last
\* one written: write_idx - next_idx is not a multiple of N
C21_Witness ==
  \E r \in Readers :
    /\ LappedRead(r)
    /\ (nwrites - rpos[r]) % CNT # 0
    /\ ReadResult(next_idx[r]).seq # write_idx
    /\ ReadResult(next_idx[r]).seq = U32(NewestInSlot(r))


\* what C22 says of a call of readLast by reader r that starts in this state
\* and runs with no write meanwhile: it returns the record with sequence
\* write_idx when a record with sequence >= next_idx was written and none
\* otherwise; it leaves next_idx = write_idx + 1, where a read returns none
\* and leaves next_idx as it is
ReadLastIsNewest(r) ==
  LET out == ReadLastFrom(next_idx[r], NoView)
      after == ReadResult(out.next)
  IN  /\ out.ret.found <=> nwrites >= rpos[r]
      /\ out.ret.found => (out.ret.seq = write_idx /\ Published(out.ret.slot) = nwrites)
      /\ out.next = U32(write_idx + 1)
      /\ ~after.ok
      /\ after.next = out.next

\* C22: readLast called with no write in progress, whatever the reader's lag
C22_ReadLastReturnsNewest ==
  \A r \in Readers :
    (rpc[r] = "poll" /\ wpc = "idle") => ReadLastIsNewest(r)

\* C22, amended: the same, for a reader fewer than 2^(SeqBits-1) records
\* behind the writer
C22_ReadLastReturnsNewestInRange ==
  \A r \in Readers :
    (rpc[r] = "poll" /\ wpc = "idle" /\ nwrites - rpos[r] < Modulus \div 2)
      => ReadLastIsNewest(r)

\* readLast, after write_idx wrapped past zero, has returned the record with
\* sequence write_idx to a reader that had fallen behind, and left next_idx
\* at write_idx + 1; no write is in progress
C22_Witness ==
  \E r \in Readers :
    /\ rpc[r] = "copy"
    /\ wpc = "idle"
    /\ nwrites > Modulus
    /\ lapped[r]
    /\ got[r] = write_idx
    /\ next_idx[r] = U32(write_idx + 1)
    /\ ReadLastFrom(next_idx[r], NoView) = [ret |-> NoView, next |-> next_idx[r]]


\* the ring's slots
Slots == 0 .. (CNT - 1)

\* the first sequence number >= 1 congruent to i modulo N
FirstSeq(i) == IF i = 0 THEN CNT ELSE i

\* C23: before write_idx wraps, no step lowers the seq of a slot, and when
\* the seq of the slot at ring index i changes it becomes i + 1 if it was the
\* initial 0 and otherwise the value it had + N
C23_SlotTakesIndexPlusOne ==
  [][nwrites' < Modulus =>
       \A i \in Slots :
         /\ blks'[i].idx >= blks[i].idx
         /\ blks'[i].idx # blks[i].idx =>
              blks'[i].idx = IF blks[i].idx = 0 THEN i + 1 ELSE blks[i].idx + CNT]_vars

\* C23, amended: the same with the values i, i + N, i + 2N, ... for the slot
\* at ring index i >= 1 and N, 2N, 3N, ... for the slot at ring index 0: the
\* first value is the first sequence congruent to i modulo N
C23_SlotTakesCongruentSeqs ==
  [][nwrites' < Modulus =>
       \A i \in Slots :
         /\ blks'[i].idx >= blks[i].idx
         /\ blks'[i].idx # blks[i].idx =>
              blks'[i].idx = IF blks[i].idx = 0 THEN FirstSeq(i) ELSE blks[i].idx + CNT]_vars

\* before the wrap, the writer is in its third revolution: the slot of
\* sequence 1 holds 2N + 1 and slot 0 still holds 2N, stored one revolution
\* after N
C23_Witness ==
  /\ nwrites < Modulus
  /\ blks[1 % CNT].idx = 2 * CNT + 1
  /\ blks[0].idx = 2 * CNT


\* the running flag of subscriber id was set by subscribe and cleared since
Cleared(id) == sub[id].tpc # "unborn" /\ ~sub[id].running

\* what C24 says while a callback runs and of the callbacks started later:
\* no step of another thread takes a thread whose flag was cleared out of its
\* callback, the only step that does is the callback's return; and from any
\* state where the flag is cleared, at most one more callback is started
CallbackFinishesAtMostOneMore ==
  /\ [][\A id \in SubIds :
          (Cleared(id) /\ sub[id].tpc = "callback" /\ sub'[id].tpc # "callback")
            => (ConsumerReturn(id) /\ sub'[id].tpc = "loop")]_vars
  /\ \A id \in SubIds, n \in 0 .. FewPublish :
       []((Cleared(id) /\ sub[id].ncalls = n) => [](sub[id].ncalls <= n + 1))
  /\ [][\A id \in SubIds :
          (Cleared(id) /\ sub[id].tpc = "loop" /\ sub'[id].tpc # "loop")
            => sub'[id].tpc = "exited"]_vars

\* C24: once the running flag of a subscriber is cleared, a callback in
\* progress runs to completion, at most one further callback is started,
\* and under fair scheduling the consumer thread exits, at its next check of
\* the flag, whether or not a record is ever published
C24_CancellationIsCooperative ==
  /\ CallbackFinishesAtMostOneMore
  /\ \A id \in SubIds : Cleared(id) ~> (sub[id].tpc = "exited")

\* the same for the subscribers whose consumer thread had done its startup
\* lookup when the flag was cleared: the part of C24 that the join under
\* the mutex (C5, C6) leaves true
C24_PastStartup ==
  /\ CallbackFinishesAtMostOneMore
  /\ \A id \in SubIds :
       (Cleared(id) /\ sub[id].tpc # "start") ~> (sub[id].tpc = "exited")


\* the largest sequence in 1 .. w congruent to i modulo N; 0, the initial
\* seq of a slot, when there is none
Newest(i, w) ==
  IF \E n \in 1 .. w : n % CNT = i
  THEN CHOOSE n \in 1 .. w : n % CNT = i /\ n + CNT > w
  ELSE 0

\* C25: before write_idx wraps, write_idx is the number of writes started;
\* once the first write is complete slot 1 mod N holds sequence 1 and the
\* other slots 0; every slot's seq is 0 or congruent to its ring index
\* modulo N, and at most write_idx; every slot holds the largest sequence
\* <= write_idx congruent to its index, but for the slot of the write in
\* progress, which holds the value it had before that write; and a read
\* that returns a record drops a multiple of N records
C25_RingInvariants ==
  nwrites < Modulus =>
    /\ write_idx = nwrites
    /\ (nwrites = 1 /\ wpc = "idle") =>
         \A i \in Slots : blks[i].idx = IF i = 1 % CNT THEN 1 ELSE 0
    /\ \A i \in Slots :
         /\ blks[i].idx = 0 \/ blks[i].idx % CNT = i
         /\ blks[i].idx <= write_idx
         /\ blks[i].idx = IF wpc # "idle" /\ i = write_idx % CNT
                          THEN Newest(i, write_idx - 1)
                          ELSE Newest(i, write_idx)
    /\ \A r \in Readers :
         LET res == ReadResult(next_idx[r])
         IN  (rpc[r] = "poll" /\ res.ok) =>
               /\ res.seq >= next_idx[r]
               /\ (res.seq - next_idx[r]) % CNT = 0
               /\ Published(res.slot) - rpos[r] = res.seq - next_idx[r]

\* before the wrap, in the writer's third revolution or later, a write is in
\* progress on a slot that still holds the sequence of the revolution
\* before, and a reader is about to drop a positive multiple of N records
C25_Witness ==
  /\ nwrites < Modulus
  /\ nwrites > 2 * CNT
  /\ wpc = "store"
  /\ blks[write_idx % CNT].idx = write_idx - CNT
  /\ \E r \in Readers :
       /\ rpc[r] = "poll"
       /\ ReadResult(next_idx[r]).ok
       /\ ReadResult(next_idx[r]).seq - next_idx[r] >= CNT

====
